---------------------------- MODULE Spec2Model ----------------------------
(***************************************************************************)
(* A model of seo_analyzer.py: the single-page SEO analyser (SEOAnalyzer   *)
(* and main).  Text is a sequence of characters (one-character strings;    *)
(* "U+00E9" stands for the one non-ASCII letter of the model and "U+0008"  *)
(* for the backspace control character).                                   *)
(* A fetched document is the sequence of elements and text nodes that      *)
(* BeautifulSoup(html, 'html.parser') yields for it, in document order.    *)
(* Python's None is the empty tuple and a present value v is <<v>>.        *)
(***************************************************************************)
EXTENDS Integers, Sequences, FiniteSets

VARIABLES
    argc,        \* len(sys.argv)
    argv1,       \* sys.argv[1], the URL argument: [scheme, host]
    response,    \* what the server answers, one answer per GET, in order
    pc,          \* position of main
    gets,        \* number of GET requests issued
    html,        \* value returned by fetch_page (None or <<markup>>)
    page_data,   \* value returned by analyze_page (None or <<PageAnalysis>>)
    report,      \* value returned by generate_report (None or <<Report>>)
    artifact,    \* content of seo_analysis.json (None or <<document>>)
    stdout,      \* the kinds of the lines printed so far
    stderr,      \* what the interpreter wrote to standard error
    kw_text,     \* extract_keywords: the text argument
    kw_args,     \* extract_keywords: None or <<[min_length, max_keywords]>>
    kw_result    \* extract_keywords: None or <<returned list>>

vars == <<argc, argv1, response, pc, gets, html, page_data, report, artifact, stdout, stderr,
          kw_text, kw_args, kw_result>>
pipeVars == <<argc, argv1, response, pc, gets, html, page_data, report, artifact, stdout, stderr>>
kwVars == <<kw_text, kw_args, kw_result>>

None == <<>>
Some(v) == <<v>>
Min(a, b) == IF a <= b THEN a ELSE b
Max(a, b) == IF a >= b THEN a ELSE b

---------------------------------------------------------------------------
(* Characters and the classes the regular expressions and str methods use. *)

LowerLetters ==
    <<"a", "b", "c", "d", "e", "f", "g", "h", "i", "j", "k", "l", "m",
      "n", "o", "p", "q", "r", "s", "t", "u", "v", "w", "x", "y", "z">>
UpperLetters ==
    <<"A", "B", "C", "D", "E", "F", "G", "H", "I", "J", "K", "L", "M",
      "N", "O", "P", "Q", "R", "S", "T", "U", "V", "W", "X", "Y", "Z">>
LowerSet == {LowerLetters[i] : i \in DOMAIN LowerLetters}
UpperSet == {UpperLetters[i] : i \in DOMAIN UpperLetters}
DigitSet == {"0", "1", "2", "3", "4", "5", "6", "7", "8", "9"}
NonAsciiLetter == "U+00E9"
Backspace == "U+0008"
WhitespaceSet == {" ", "\n", "\t"}

\* [a-z]
IsAZ(c) == c \in LowerSet
\* \w of a str pattern: letters (ASCII or not), digits and the underscore
IsWordChar(c) == c \in LowerSet \cup UpperSet \cup DigitSet \cup {"_", NonAsciiLetter}
\* \s, and the separators of str.split()
IsSpace(c) == c \in WhitespaceSet
\* str.lower() on one character
LowerChar(c) ==
    IF c \in UpperSet
    THEN LowerLetters[CHOOSE i \in DOMAIN UpperLetters : UpperLetters[i] = c]
    ELSE c
Lower(text) == [i \in 1..Len(text) |-> LowerChar(text[i])]

\* The positions of s, as a sequence: 1, 2, ..., Len(s)
Positions(s) == [i \in 1..Len(s) |-> i]

\* needle in haystack (str.__contains__)
Contains(haystack, needle) ==
    \E i \in 1..(Len(haystack) - Len(needle) + 1) :
        SubSeq(haystack, i, i + Len(needle) - 1) = needle

\* re.sub(r'<[^>]+>', ' ', text): leftmost non-overlapping matches, each a "<",
\* one or more characters other than ">", and the first ">" that follows.
StripTags(text) ==
    LET n == Len(text)
        Gt == {i \in 1..n : text[i] = ">"}
        Cand == {i \in 1..n : /\ text[i] = "<"
                              /\ i < n
                              /\ text[i + 1] # ">"
                              /\ \E j \in Gt : j > i}
        End(i) == CHOOSE j \in Gt : j > i /\ \A k \in Gt : k > i => j <= k
        \* a candidate starts a match unless an earlier match runs over it
        Start == {i \in Cand : \A s \in Cand : s < i => \E j \in Gt : s < j /\ j < i}
        Inside(k) == \E s \in Start : s < k /\ k <= End(s)
        Keep(k) == ~Inside(k)
        kept == SelectSeq(Positions(text), Keep)
    IN  [j \in 1..Len(kept) |-> IF kept[j] \in Start THEN " " ELSE text[kept[j]]]

\* re.sub(r'\s+', ' ', text): every maximal run of whitespace becomes one space
CollapseSpaces(text) ==
    LET Keep(k) == ~IsSpace(text[k]) \/ k = 1 \/ ~IsSpace(text[k - 1])
        kept == SelectSeq(Positions(text), Keep)
    IN  [j \in 1..Len(kept) |-> IF IsSpace(text[kept[j]]) THEN " " ELSE text[kept[j]]]

\* re.findall(r'\b[a-z]{' + str(min_length) + ',}\b', text): the second literal
\* is not a raw string, so its \b is the backspace character U+0008 and the
\* pattern is  \b [a-z]{min_length,} U+0008 : a run of a-z that starts at a
\* word boundary, has at least min_length letters and is followed by a
\* backspace; the backspace is part of the match
FindWords(text, min_length) ==
    LET n == Len(text)
        RunEnd(i) == CHOOSE e \in i..n :
                        /\ \A k \in i..e : IsAZ(text[k])
                        /\ (e = n \/ ~IsAZ(text[e + 1]))
        Match(i) == /\ IsAZ(text[i])
                    /\ (i = 1 \/ ~IsWordChar(text[i - 1]))
                    /\ RunEnd(i) - i + 1 >= min_length
                    /\ RunEnd(i) < n
                    /\ text[RunEnd(i) + 1] = Backspace
        starts == SelectSeq(Positions(text), Match)
    IN  [j \in 1..Len(starts) |-> SubSeq(text, starts[j], RunEnd(starts[j]) + 1)]

\* len(text.split()): the number of maximal runs of non-whitespace
WordCount(text) ==
    Cardinality({i \in 1..Len(text) :
                    ~IsSpace(text[i]) /\ (i = 1 \/ IsSpace(text[i - 1]))})

stop_words == {
    <<"t", "h", "e">>, <<"a">>, <<"a", "n">>,
    <<"a", "n", "d">>, <<"o", "r">>, <<"b", "u", "t">>,
    <<"i", "n">>, <<"o", "n">>, <<"a", "t">>,
    <<"t", "o">>, <<"f", "o", "r">>, <<"o", "f">>,
    <<"w", "i", "t", "h">>, <<"b", "y">>, <<"i", "s">>,
    <<"a", "r", "e">>, <<"w", "a", "s">>, <<"w", "e", "r", "e">>,
    <<"b", "e">>, <<"b", "e", "e", "n">>, <<"h", "a", "v", "e">>,
    <<"h", "a", "s">>, <<"h", "a", "d">>, <<"d", "o">>,
    <<"d", "o", "e", "s">>, <<"d", "i", "d">>, <<"w", "i", "l", "l">>,
    <<"w", "o", "u", "l", "d">>, <<"s", "h", "o", "u", "l", "d">>, <<"c", "o", "u", "l", "d">>,
    <<"c", "a", "n">>, <<"m", "a", "y">>, <<"m", "i", "g", "h", "t">>,
    <<"t", "h", "i", "s">>, <<"t", "h", "a", "t">>, <<"t", "h", "e", "s", "e">>,
    <<"t", "h", "o", "s", "e">>, <<"i">>, <<"y", "o", "u">>,
    <<"h", "e">>, <<"s", "h", "e">>, <<"i", "t">>,
    <<"w", "e">>, <<"t", "h", "e", "y">>, <<"m", "e">>,
    <<"h", "i", "m">>, <<"h", "e", "r">>, <<"u", "s">>,
    <<"t", "h", "e", "m">>, <<"g", "e", "t">>, <<"g", "o">>,
    <<"c", "o", "m", "e">>, <<"s", "e", "e">>, <<"k", "n", "o", "w">>,
    <<"t", "h", "i", "n", "k">>, <<"w", "a", "n", "t">>, <<"n", "e", "e", "d">>,
    <<"u", "s", "e">>, <<"w", "o", "r", "k">>, <<"c", "a", "l", "l">>,
    <<"t", "r", "y">>, <<"a", "s", "k">>, <<"f", "e", "e", "l">>,
    <<"b", "e", "c", "o", "m", "e">>, <<"l", "e", "a", "v", "e">>, <<"p", "u", "t">>
}

NotStopWord(word) == word \notin stop_words

\* Counter(words): the distinct words in order of first occurrence, each
\* with the number of its occurrences
Counter(words) ==
    LET First(i) == \A j \in 1..(i - 1) : words[j] # words[i]
        firsts == SelectSeq(Positions(words), First)
        Count(w) == Cardinality({i \in 1..Len(words) : words[i] = w})
    IN  [j \in 1..Len(firsts) |-> <<words[firsts[j]], Count(words[firsts[j]])>>]

\* InsertByCount with ">" for ">=": equal counts end up in reverse order
InsertByCount_Unstable(sorted, item) ==
    LET before == Cardinality({i \in 1..Len(sorted) : sorted[i][2] > item[2]})
    IN  SubSeq(sorted, 1, before) \o <<item>> \o SubSeq(sorted, before + 1, Len(sorted))

\* One step of the stable descending sort: item goes after every element of
\* sorted whose count is not smaller than its own
InsertByCount(sorted, item) ==
    LET before == Cardinality({i \in 1..Len(sorted) : sorted[i][2] >= item[2]})
    IN  SubSeq(sorted, 1, before) \o <<item>> \o SubSeq(sorted, before + 1, Len(sorted))

RECURSIVE SortByCount(_)
\* sorted(items, key=count, reverse=True): stable, so equal counts keep the
\* order of items
SortByCount(items) ==
    IF items = <<>> THEN <<>>
    ELSE InsertByCount(SortByCount(SubSeq(items, 1, Len(items) - 1)), items[Len(items)])

\* Counter.most_common(n)
MostCommon(items, n) == SubSeq(SortByCount(items), 1, Min(n, Len(items)))

\* SEOAnalyzer.extract_keywords(text, min_length, max_keywords)
NormalizeText(text) == CollapseSpaces(Lower(StripTags(text)))
KeywordWords(text, min_length) ==
    SelectSeq(FindWords(NormalizeText(text), min_length), NotStopWord)
extract_keywords(text, min_length, max_keywords) ==
    MostCommon(Counter(KeywordWords(text, min_length)), max_keywords)

---------------------------------------------------------------------------
(* Documents: what BeautifulSoup(html, 'html.parser') holds for a markup. *)

NoAttrs == [name |-> None, content |-> None, src |-> None, alt |-> None, type |-> None]
Elem(tag, attrs, text) == [tag |-> tag, attrs |-> attrs, text |-> text]

DescriptionName == <<"d", "e", "s", "c", "r", "i", "p", "t", "i", "o", "n">>
KeywordsName == <<"k", "e", "y", "w", "o", "r", "d", "s">>
LdJsonType ==
    <<"a", "p", "p", "l", "i", "c", "a", "t", "i", "o", "n", "/",
      "l", "d", "+", "j", "s", "o", "n">>
JavascriptType ==
    <<"t", "e", "x", "t", "/", "j", "a", "v", "a", "s", "c", "r", "i", "p", "t">>

\* tag.get(attr): None when the element has no such attribute
Get(node, attr) == node.attrs[attr]
\* tag.get(attr, ''): the empty string when the element has no such attribute
GetOrEmpty(node, attr) == IF node.attrs[attr] = None THEN <<>> ELSE node.attrs[attr][1]
\* bool(value) of None or a str
Truthy(opt) == opt # None /\ opt[1] # <<>>
\* len(value): a TypeError when value is None
LenRaises(opt) == opt = None

\* soup.find(...): the first of the elements that match (found, which is
\* soup.find_all(...), a SelectSeq over the document), or None
FindFirst(found) == IF found = <<>> THEN None ELSE Some(found[1])

IsTitle(node) == node.tag = "title"
IsMetaDescription(node) == node.tag = "meta" /\ node.attrs.name = Some(DescriptionName)
IsMetaKeywords(node) == node.tag = "meta" /\ node.attrs.name = Some(KeywordsName)
IsH1(node) == node.tag = "h1"
IsH2(node) == node.tag = "h2"
IsH3(node) == node.tag = "h3"
IsImg(node) == node.tag = "img"
IsScriptOrStyle(node) == node.tag \in {"script", "style"}
IsLdJsonScript(node) == node.tag = "script" /\ node.attrs.type = Some(LdJsonType)

\* str.strip()
Strip(text) ==
    LET solid == {i \in 1..Len(text) : ~IsSpace(text[i])}
    IN  IF solid = {} THEN <<>>
        ELSE SubSeq(text, CHOOSE i \in solid : \A j \in solid : i <= j,
                          CHOOSE i \in solid : \A j \in solid : i >= j)

\* [h.get_text().strip() for h in found], found being soup.find_all(tag)
HeadingTexts(found) == [i \in 1..Len(found) |-> Strip(found[i].text)]

\* ImageList with has_alt true for every alt attribute that is present
ImageList_PresentAlt(doc) ==
    LET found == SelectSeq(doc, IsImg)
    IN  [i \in 1..Len(found) |->
            [src |-> GetOrEmpty(found[i], "src"),
             alt |-> GetOrEmpty(found[i], "alt"),
             has_alt |-> Get(found[i], "alt") # None]]

\* the images list built by the loop over soup.find_all('img')
ImageList(doc) ==
    LET found == SelectSeq(doc, IsImg)
    IN  [i \in 1..Len(found) |->
            [src |-> GetOrEmpty(found[i], "src"),
             alt |-> GetOrEmpty(found[i], "alt"),
             has_alt |-> Truthy(Get(found[i], "alt"))]]

\* for script in soup(["script", "style"]): script.decompose()
Decompose(doc) == LET Stays(node) == ~IsScriptOrStyle(node) IN SelectSeq(doc, Stays)

RECURSIVE GetText_WithoutTitle(_)
\* GetText that leaves the text of <title> out
GetText_WithoutTitle(doc) ==
    IF doc = <<>> THEN <<>>
    ELSE (IF IsTitle(doc[1]) THEN <<>> ELSE doc[1].text) \o GetText_WithoutTitle(Tail(doc))

RECURSIVE GetText(_)
\* soup.get_text(): the text of every node, in document order
GetText(doc) == IF doc = <<>> THEN <<>> ELSE doc[1].text \o GetText(Tail(doc))

default_min_length == 3
default_max_keywords == 50

ImagesWithoutAlt(images) == Cardinality({i \in 1..Len(images) : ~images[i].has_alt})

\* SEOAnalyzer.analyze_page after the fetch: [raised, value]; raised means
\* the TypeError of len(None), value is None or <<the returned dict>>
AnalyzeMarkup(url, markup) ==
    LET soup == markup
        title == FindFirst(SelectSeq(soup, IsTitle))
        meta_desc == FindFirst(SelectSeq(soup, IsMetaDescription))
        meta_keywords == FindFirst(SelectSeq(soup, IsMetaKeywords))
        headings == [h1 |-> HeadingTexts(SelectSeq(soup, IsH1)),
                     h2 |-> HeadingTexts(SelectSeq(soup, IsH2)),
                     h3 |-> HeadingTexts(SelectSeq(soup, IsH3))]
        images == ImageList(soup)
        stripped == Decompose(soup)
        text_content == GetText(stripped)
        keywords == extract_keywords(text_content, default_min_length, default_max_keywords)
        structured_data == SelectSeq(stripped, IsLdJsonScript)
    IN  IF meta_desc # None /\ LenRaises(Get(meta_desc[1], "content"))
        THEN [raised |-> TRUE, value |-> None]
        ELSE [raised |-> FALSE, value |-> Some(
            [url |-> url,
             title |-> IF title # None THEN Some(title[1].text) ELSE None,
             title_length |-> IF title # None THEN Len(title[1].text) ELSE 0,
             meta_description |-> IF meta_desc # None THEN Get(meta_desc[1], "content") ELSE None,
             meta_desc_length |-> IF meta_desc # None THEN Len(Get(meta_desc[1], "content")[1]) ELSE 0,
             meta_keywords |-> IF meta_keywords # None THEN Get(meta_keywords[1], "content") ELSE None,
             headings |-> headings,
             images |-> images,
             images_without_alt |-> ImagesWithoutAlt(images),
             total_images |-> Len(images),
             keywords |-> keywords,
             word_count |-> WordCount(text_content),
             has_structured_data |-> Len(structured_data) > 0,
             structured_data_count |-> Len(structured_data)])]

\* if not html: return None
analyze_page(url, fetched) ==
    IF fetched = None \/ fetched[1] = <<>>
    THEN [raised |-> FALSE, value |-> None]
    ELSE AnalyzeMarkup(url, fetched[1])

title_min == 30
title_max == 60
meta_desc_min == 120
meta_desc_max == 160
min_word_count == 300
top_keywords == 10
max_listed_missing == 5

it_keywords ==
    << <<"c", "o", "m", "p", "u", "t", "e", "r">>,
       <<"r", "e", "p", "a", "i", "r">>,
       <<"s", "u", "p", "p", "o", "r", "t">>,
       <<"n", "e", "t", "w", "o", "r", "k">>,
       <<"s", "e", "c", "u", "r", "i", "t", "y">>,
       <<"m", "a", "n", "a", "g", "e", "d">>,
       <<"s", "e", "r", "v", "i", "c", "e", "s">>,
       <<"b", "u", "s", "i", "n", "e", "s", "s">>,
       <<"w", "i", "c", "h", "i", "t", "a">> >>

RECURSIVE JoinWithSpace(_)
\* ' '.join(words)
JoinWithSpace(words) ==
    IF words = <<>> THEN <<>>
    ELSE IF Len(words) = 1 THEN words[1]
    ELSE words[1] \o <<" ">> \o JoinWithSpace(Tail(words))

\* TitleIssues with "<=" for "<" in the length check
TitleIssues_NonStrict(page) ==
    IF ~Truthy(page.title) THEN << <<"Missing title tag">> >>
    ELSE IF page.title_length <= 30 THEN << <<"Title too short", page.title_length>> >>
    ELSE IF page.title_length > 60 THEN << <<"Title too long", page.title_length>> >>
    ELSE <<>>

\* TitleIssues with three independent ifs for the if / elif / elif chain
TitleIssues_IndependentIfs(page) ==
    (IF ~Truthy(page.title) THEN << <<"Missing title tag">> >> ELSE <<>>)
    \o (IF page.title_length < 30 THEN << <<"Title too short", page.title_length>> >> ELSE <<>>)
    \o (IF page.title_length > 60 THEN << <<"Title too long", page.title_length>> >> ELSE <<>>)

\* The title checks: if / elif / elif
TitleIssues(page) ==
    IF ~Truthy(page.title) THEN << <<"Missing title tag">> >>
    ELSE IF page.title_length < title_min THEN << <<"Title too short", page.title_length>> >>
    ELSE IF page.title_length > title_max THEN << <<"Title too long", page.title_length>> >>
    ELSE <<>>

MetaDescriptionIssues(page) ==
    IF ~Truthy(page.meta_description) THEN << <<"Missing meta description">> >>
    ELSE IF page.meta_desc_length < meta_desc_min
         THEN << <<"Meta description too short", page.meta_desc_length>> >>
    ELSE IF page.meta_desc_length > meta_desc_max
         THEN << <<"Meta description too long", page.meta_desc_length>> >>
    ELSE <<>>

HeadingIssues(page) ==
    IF page.headings.h1 = <<>> THEN << <<"Missing H1 tag">> >>
    ELSE IF Len(page.headings.h1) > 1 THEN << <<"Multiple H1 tags", Len(page.headings.h1)>> >>
    ELSE <<>>

ImageIssues(page) ==
    IF page.images_without_alt > 0
    THEN << <<"images missing alt text", page.images_without_alt>> >>
    ELSE <<>>

ContentIssues(page) ==
    IF page.word_count < min_word_count
    THEN << <<"Low word count", page.word_count>> >>
    ELSE <<>>

StructuredDataRecommendations(page) ==
    IF ~page.has_structured_data THEN << <<"Add structured data (JSON-LD)">> >> ELSE <<>>

KeywordRecommendations(page) ==
    LET top == SubSeq(page.keywords, 1, Min(top_keywords, Len(page.keywords)))
        found_keywords == [i \in 1..Len(top) |-> top[i][1]]
        joined == JoinWithSpace(found_keywords)
        Missing(kw) == ~Contains(joined, kw)
        missing_it_keywords == SelectSeq(it_keywords, Missing)
    IN  IF missing_it_keywords # <<>>
        THEN << <<"Consider adding IT-related keywords",
                  SubSeq(missing_it_keywords, 1,
                         Min(max_listed_missing, Len(missing_it_keywords)))>> >>
        ELSE <<>>

\* SEOAnalyzer.generate_seo_issues(page_data): (issues, recommendations)
generate_seo_issues(page) ==
    [issues |-> TitleIssues(page) \o MetaDescriptionIssues(page) \o HeadingIssues(page)
                  \o ImageIssues(page) \o ContentIssues(page),
     recommendations |-> StructuredDataRecommendations(page) \o KeywordRecommendations(page)]

issue_penalty == 10
full_score == 100

\* score = 100; score -= len(issues) * 10; score = max(0, score)
Score(issues) == Max(0, full_score - Len(issues) * issue_penalty)

\* generate_report with the recommendations penalised like the issues
generate_report_CountsRecommendations(page) ==
    LET found == generate_seo_issues(page)
    IN  [score |-> Score(found.issues \o found.recommendations),
         issues |-> found.issues,
         recommendations |-> found.recommendations]

\* SEOAnalyzer.generate_report(page_data): the returned dict
generate_report(page) ==
    LET found == generate_seo_issues(page)
    IN  [score |-> Score(found.issues),
         issues |-> found.issues,
         recommendations |-> found.recommendations]

---------------------------------------------------------------------------
(* The pages and texts the model runs the program on.                      *)

MaxTitleLen == 62
MaxH1 == 2
MaxImages == 3
MaxScripts == 2
ProseMargin == 12
MaxRankLen == 6
MaxLexLen == 4
MaxMinLength == 3
MaxKeywords == 3
MaxIssueCount == 12

FillPattern == <<"S", "e", "o", " ", "t", "i", "p", "s", " ">>
\* a text of exactly n characters
Fill(n) == [i \in 1..n |-> FillPattern[((i - 1) % Len(FillPattern)) + 1]]

ProseVocabulary ==
    << <<"w", "e", "b">>, <<"l", "a", "n">>, <<"t", "h", "e">>,
       <<"w", "e", "b">>, <<"f", "i", "x">> >>
\* a text of exactly n three-letter words separated by single spaces
Prose(n) ==
    [i \in 1..(IF n = 0 THEN 0 ELSE 4 * n - 1) |->
        IF (i - 1) % 4 = 3 THEN " "
        ELSE ProseVocabulary[(((i - 1) \div 4) % Len(ProseVocabulary)) + 1][((i - 1) % 4) + 1]]

Newline == Elem("#text", NoAttrs, <<"\n">>)
ImageSrc == <<"a", ".", "p", "n", "g">>
AltText == <<"l", "o", "g", "o">>
ScriptBody == <<"v", "a", "r", " ", "x">>
HeadingText == <<"I", "T", " ", "h", "e", "l", "p">>
KeywordsContent == <<"s", "e", "o">>

RECURSIVE Layout(_, _)
\* elems, each followed by the nodes of sep
Layout(sep, elems) ==
    IF elems = <<>> THEN <<>> ELSE <<elems[1]>> \o sep \o Layout(sep, Tail(elems))

\* The markup of a page: title (None: no <title>), meta_desc and meta_kw
\* (None: no element; <<None>>: an element without content; <<<<c>>>>: content
\* c), the texts of the <h1> and of the <h2> elements, the alt of every <img>
\* (None: no alt attribute), the kind of every <script> or <style>, the text
\* of every <p>
PageOf(sep, title, meta_desc, meta_kw, h1s, h2s, alts, scripts, paragraphs) ==
    Layout(sep,
        (IF title = None THEN <<>> ELSE <<Elem("title", NoAttrs, title[1])>>)
        \o (IF meta_desc = None THEN <<>>
            ELSE <<Elem("meta", [NoAttrs EXCEPT !.name = Some(DescriptionName),
                                                 !.content = meta_desc[1]], <<>>)>>)
        \o (IF meta_kw = None THEN <<>>
            ELSE <<Elem("meta", [NoAttrs EXCEPT !.name = Some(KeywordsName),
                                                 !.content = meta_kw[1]], <<>>)>>)
        \o [i \in 1..Len(scripts) |->
               IF scripts[i] = "style" THEN Elem("style", NoAttrs, ScriptBody)
               ELSE IF scripts[i] = "ld+json"
                    THEN Elem("script", [NoAttrs EXCEPT !.type = Some(LdJsonType)], ScriptBody)
               ELSE IF scripts[i] = "javascript"
                    THEN Elem("script", [NoAttrs EXCEPT !.type = Some(JavascriptType)], ScriptBody)
               ELSE Elem("script", NoAttrs, ScriptBody)]
        \o [i \in 1..Len(h1s) |-> Elem("h1", NoAttrs, h1s[i])]
        \o [i \in 1..Len(h2s) |-> Elem("h2", NoAttrs, h2s[i])]
        \o [i \in 1..Len(alts) |->
               Elem("img", [NoAttrs EXCEPT !.src = Some(ImageSrc), !.alt = alts[i]], <<>>)]
        \o [i \in 1..Len(paragraphs) |-> Elem("p", NoAttrs, paragraphs[i])])

\* a page whose prose is one <p>
Page(sep, title, meta_desc, meta_kw, h1s, h2s, alts, scripts, prose) ==
    PageOf(sep, title, meta_desc, meta_kw, h1s, h2s, alts, scripts, <<prose>>)

Lines == <<Newline>>
Compact == <<>>
SeqsUpTo(S, n) == UNION {[1..k -> S] : k \in 0..n}

Titles == {None} \cup {Some(Fill(n)) : n \in 0..MaxTitleLen}
MetaLengths == {0, meta_desc_min - 1, meta_desc_min, meta_desc_max, meta_desc_max + 1}
MetaDescriptions == {None, Some(None)} \cup {Some(Some(Fill(n))) : n \in MetaLengths}
MetaKeywords == {None, Some(None), Some(Some(KeywordsContent))}
AltValues == {None, Some(<<>>), Some(AltText)}
ScriptKinds == {"plain", "ld+json", "javascript", "style"}
GoodTitle == Some(Fill(40))
GoodMeta == Some(Some(Fill(140)))

\* pages that differ in title, meta description and number of <h1>, without
\* an image or with one that has no alt attribute
HeadPages ==
    {Page(Lines, t, m, None, [i \in 1..h |-> HeadingText], <<HeadingText>>, a, <<>>, Prose(6)) :
        t \in Titles, m \in MetaDescriptions, h \in 0..MaxH1, a \in {<<>>, <<None>>}}
\* pages that differ in images, scripts and meta keywords
MediaPages ==
    {Page(Lines, GoodTitle, GoodMeta, k, <<HeadingText>>, <<HeadingText>>, a, s, Prose(6)) :
        k \in MetaKeywords, a \in SeqsUpTo(AltValues, MaxImages),
        s \in SeqsUpTo(ScriptKinds, MaxScripts)}
\* pages that differ in the amount of prose, around the 300 word threshold
ProsePages ==
    {Page(Lines, GoodTitle, GoodMeta, None, <<HeadingText>>, <<HeadingText>>, <<>>, <<>>, Prose(n)) :
        n \in {0} \cup ((min_word_count - ProseMargin)..(min_word_count + 1))}

scenario_title ==
    <<"H", "o", "m", "e", " ", "|", " ", "I", "T", " ", "S", "u", "p", "p", "o", "r", "t",
      " ", "W", "i", "c", "h", "i", "t", "a">>
ScenarioH1Texts == {<<>>, <<"H", "e", "l", "p">>, HeadingText, Prose(45)}
ScenarioAlts == {<<Some(AltText), None>>, <<None, Some(AltText)>>,
                 <<Some(AltText), Some(<<>>)>>, <<Some(<<>>), Some(AltText)>>}
\* the words of the prose of the scenario, paragraph by paragraph
ScenarioSplits == {<<250>>, <<125, 125>>, <<100, 100, 50>>, <<50, 50, 50, 50, 50>>}
\* the end-to-end scenario: the title "Home | IT Support Wichita", no meta
\* description, one <h1>, two images of which one lacks alt text, 250 words
\* of prose in one or several <p>, no JSON-LD
ScenarioPages ==
    {PageOf(sep, Some(scenario_title), None, None, <<h>>, <<>>, a, s,
            [i \in 1..Len(split) |-> Prose(split[i])]) :
        sep \in {Lines, Compact}, h \in ScenarioH1Texts, a \in ScenarioAlts,
        s \in {<<>>, <<"javascript">>}, split \in ScenarioSplits}

Pages == HeadPages \cup MediaPages \cup ProsePages \cup ScenarioPages

MaxRedirects == 2

\* one answer of the server: a status line with or without a Location header
\* and with a body, or no answer at all (connection error, timeout)
Status(code, location, body) ==
    [kind |-> "status", status |-> code, location |-> location, body |-> body]
NoAnswer(kind) == [kind |-> kind, status |-> 0, location |-> FALSE, body |-> <<>>]

PlainPage == Page(Lines, GoodTitle, GoodMeta, None, <<HeadingText>>, <<>>, <<>>, <<>>, Prose(6))
RedirectCodes == {301, 302, 303, 307, 308}
Redirects == {Status(c, TRUE, <<>>) : c \in RedirectCodes}
\* answers that end the exchange: statuses requests does not follow
\* (204 and 304 carry no body) and the two transport failures
FinalAnswers ==
    {Status(c, FALSE, b) : c \in {200, 300, 404, 500}, b \in {<<>>, PlainPage}}
    \cup {Status(302, FALSE, PlainPage), Status(300, TRUE, PlainPage)}
    \cup {Status(204, FALSE, <<>>), Status(304, FALSE, <<>>), Status(304, TRUE, <<>>)}
    \cup {NoAnswer("connection_error"), NoAnswer("timeout")}

\* what the server may answer to the GETs of one run: a 200 with any of the
\* pages; up to MaxRedirects redirects and then a final answer; or
\* redirects only, the last of which the server repeats for ever
Responses ==
    {<<Status(200, FALSE, d)>> : d \in Pages}
    \cup {chain \o <<a>> : chain \in SeqsUpTo(Redirects, MaxRedirects), a \in FinalAnswers}
    \cup (SeqsUpTo(Redirects, MaxRedirects) \ {<<>>})

RankAlphabet == {"d", "n", " ", Backspace}
LexAlphabet == {"a", "D", "1", "_", " ", "<", ">", "-", NonAsciiLetter, Backspace}
RankTexts == SeqsUpTo(RankAlphabet, MaxRankLen)
LexTexts == SeqsUpTo(LexAlphabet, MaxLexLen)

url == [scheme |-> "https", host |-> "wichitacomputersolutions.com"]
\* arguments requests cannot send: no scheme ("notaurl"), no adapter (ftp)
Arguments == {url,
              [scheme |-> "http", host |-> "wichitacomputersolutions.com"],
              [scheme |-> "", host |-> "notaurl"],
              [scheme |-> "ftp", host |-> "wichitacomputersolutions.com"]}

max_redirects == 30

\* requests follows an answer with one of these statuses and a Location
IsRedirect(answer) ==
    answer.kind = "status" /\ answer.status \in RedirectCodes /\ answer.location
\* the number of redirects at the head of the answers
Followed(answers) ==
    CHOOSE k \in 0..Len(answers) :
        /\ \A i \in 1..k : IsRedirect(answers[i])
        /\ k < Len(answers) => ~IsRedirect(answers[k + 1])
\* response.raise_for_status()
RaisesForStatus(answer) == answer.status >= 400 /\ answer.status < 600

\* SEOAnalyzer.fetch_page(url): the GETs sent, the value returned, the
\* lines printed.  requests sends nothing for a URL without an http(s)
\* scheme, follows redirects (giving up after max_redirects of them) and
\* raises for a 4xx or 5xx status only; every RequestException is caught.
fetch_page(target, answers) ==
    LET failed(n) == [gets |-> n, value |-> None, printed |-> <<"error fetching">>]
        hops == Followed(answers)
    IN  IF target.scheme \notin {"http", "https"} THEN failed(0)
        ELSE IF hops = Len(answers) \/ hops > max_redirects
             THEN failed(max_redirects + 1)
        ELSE IF answers[hops + 1].kind # "status" \/ RaisesForStatus(answers[hops + 1])
             THEN failed(hops + 1)
        ELSE [gets |-> hops + 1, value |-> Some(answers[hops + 1].body), printed |-> <<>>]

---------------------------------------------------------------------------
(* main, one action per step; extract_keywords called on its own.          *)

PipeIdle ==
    /\ argc = 2
    /\ argv1 = url
    /\ response = <<NoAnswer("timeout")>>
    /\ pc = "idle"
    /\ gets = 0
    /\ html = None
    /\ page_data = None
    /\ report = None
    /\ artifact = None
    /\ stdout = <<>>
    /\ stderr = <<>>

KwIdle ==
    /\ kw_text = <<>>
    /\ kw_args = [min_length |-> default_min_length, max_keywords |-> default_max_keywords]
    /\ kw_result = None

Init ==
    /\ \/ /\ argc = 2
          /\ \/ argv1 = url /\ response \in Responses
             \/ argv1 \in Arguments /\ response = <<Status(200, FALSE, PlainPage)>>
       \/ argc \in {1, 3} /\ argv1 = url /\ response = <<NoAnswer("timeout")>>
    /\ pc = "start"
    /\ gets = 0
    /\ html = None
    /\ page_data = None
    /\ report = None
    /\ artifact = None
    /\ stdout = <<>>
    /\ stderr = <<>>
    /\ KwIdle

\* if len(sys.argv) != 2: print usage; sys.exit(1)
Usage ==
    /\ pc = "start"
    /\ argc # 2
    /\ stdout' = stdout \o <<"usage", "example">>
    /\ pc' = "exit1"
    /\ UNCHANGED <<argc, argv1, response, gets, html, page_data, report, artifact, stderr, kwVars>>

\* url = sys.argv[1]; analyzer = SEOAnalyzer(url); the two prints
Start ==
    /\ pc = "start"
    /\ argc = 2
    /\ stdout' = stdout \o <<"analyzing", "please wait">>
    /\ pc' = "fetch"
    /\ UNCHANGED <<argc, argv1, response, gets, html, page_data, report, artifact, stderr, kwVars>>

\* SEOAnalyzer.fetch_page(url), called first thing by analyze_page
FetchPage ==
    /\ pc = "fetch"
    /\ LET outcome == fetch_page(argv1, response)
       IN  /\ gets' = gets + outcome.gets
           /\ html' = outcome.value
           /\ stdout' = stdout \o outcome.printed
    /\ pc' = "analyze"
    /\ UNCHANGED <<argc, argv1, response, page_data, report, artifact, stderr, kwVars>>

\* the rest of SEOAnalyzer.analyze_page(url): an uncaught TypeError ends main,
\* the interpreter writes the traceback to standard error and exits with 1
AnalyzePage ==
    /\ pc = "analyze"
    /\ LET result == analyze_page(argv1, html)
       IN  IF result.raised
           THEN /\ pc' = "crashed"
                /\ stderr' = stderr \o <<"traceback">>
                /\ page_data' = page_data
           ELSE /\ pc' = "analyzed"
                /\ stderr' = stderr
                /\ page_data' = result.value
    /\ UNCHANGED <<argc, argv1, response, gets, html, report, artifact, stdout, kwVars>>

\* if page_data: report = analyzer.generate_report(page_data)
GenerateReport ==
    /\ pc = "analyzed"
    /\ page_data # None
    /\ report' = Some(generate_report(page_data[1]))
    /\ stdout' = stdout \o <<"report">>
    /\ pc' = "reported"
    /\ UNCHANGED <<argc, argv1, response, gets, html, page_data, artifact, stderr, kwVars>>

\* with open('seo_analysis.json', 'w') as f: json.dump(...); print
SaveArtifact ==
    /\ pc = "reported"
    /\ artifact' = Some([analysis_date |-> "sys.version",
                         page_data |-> page_data[1],
                         report |-> report[1]])
    /\ stdout' = stdout \o <<"saved">>
    /\ pc' = "done"
    /\ UNCHANGED <<argc, argv1, response, gets, html, page_data, report, stderr, kwVars>>

\* else: print("Failed to analyze the website. ...")
PrintFailure ==
    /\ pc = "analyzed"
    /\ page_data = None
    /\ stdout' = stdout \o <<"failed to analyze">>
    /\ pc' = "done"
    /\ UNCHANGED <<argc, argv1, response, gets, html, page_data, report, artifact, stderr, kwVars>>

Next ==
    \/ Usage
    \/ Start
    \/ FetchPage
    \/ AnalyzePage
    \/ GenerateReport
    \/ SaveArtifact
    \/ PrintFailure

Spec == Init /\ [][Next]_vars

RankInit ==
    /\ PipeIdle
    /\ kw_text \in RankTexts
    /\ kw_args \in [min_length : 1..MaxMinLength, max_keywords : 0..MaxKeywords]
    /\ kw_result = None

LexInit ==
    /\ PipeIdle
    /\ kw_text \in LexTexts
    /\ kw_args \in [min_length : 1..MaxMinLength, max_keywords : {default_max_keywords}]
    /\ kw_result = None

\* one call of extract_keywords(kw_text, min_length, max_keywords)
ExtractKeywords ==
    /\ kw_result = None
    /\ kw_result' = Some(extract_keywords(kw_text, kw_args.min_length, kw_args.max_keywords))
    /\ UNCHANGED <<pipeVars, kw_text, kw_args>>

KwNext == ExtractKeywords

SpecRank == RankInit /\ [][KwNext]_vars
SpecLex == LexInit /\ [][KwNext]_vars

---------------------------------------------------------------------------
(* The claims.  The markup of the run is what fetch_page returned;         *)
(* page_data and report are what the program made of it.                   *)

InSeq(x, s) == \E i \in 1..Len(s) : s[i] = x
KindsOf(msgs) == [i \in 1..Len(msgs) |-> msgs[i][1]]
TitleKinds == {"Missing title tag", "Title too short", "Title too long"}
MetaKinds == {"Missing meta description", "Meta description too short",
              "Meta description too long"}
H1Kinds == {"Missing H1 tag", "Multiple H1 tags"}
IssueGroup(kind) ==
    IF kind \in TitleKinds THEN 1
    ELSE IF kind \in MetaKinds THEN 2
    ELSE IF kind \in H1Kinds THEN 3
    ELSE IF kind = "images missing alt text" THEN 4
    ELSE IF kind = "Low word count" THEN 5
    ELSE 0
OfKinds(msgs, kinds) == LET Is(m) == m[1] \in kinds IN SelectSeq(msgs, Is)

Markup == IF html = None THEN <<>> ELSE html[1]
MarkupTitle == FindFirst(SelectSeq(Markup, IsTitle))
MarkupLdJsonCount == Len(SelectSeq(Markup, IsLdJsonScript))
MarkupImages == SelectSeq(Markup, IsImg)
HasAltText(img) == img.attrs.alt # None /\ img.attrs.alt[1] # <<>>

\* C1: in every returned PageAnalysis structured_data_count is the number of
\* <script type="application/ld+json"> elements of the markup and
\* has_structured_data says whether that number is positive; a page with a
\* JSON-LD block never gets the "Add structured data (JSON-LD)" recommendation.
C1_StructuredDataCounted ==
    /\ page_data # None =>
          /\ page_data[1].structured_data_count = MarkupLdJsonCount
          /\ page_data[1].has_structured_data = (MarkupLdJsonCount > 0)
    /\ (report # None /\ MarkupLdJsonCount > 0) =>
          ~InSeq(<<"Add structured data (JSON-LD)">>, report[1].recommendations)

\* C2: for every non-empty markup analyze_page returns a PageAnalysis without
\* raising; a <meta name="description"> without content gives an absent
\* meta_description of length 0; meta_desc_length and title_length are the
\* lengths of meta_description and title when present, else 0.
C2_AnalyzeNeverRaises ==
    /\ pc # "crashed"
    /\ (pc \in {"analyzed", "reported", "done"} /\ html # None /\ html[1] # <<>>) =>
          page_data # None
    /\ page_data # None =>
          LET p == page_data[1]
              meta == FindFirst(SelectSeq(Markup, IsMetaDescription))
          IN  /\ (meta # None /\ meta[1].attrs.content = None) =>
                    (p.meta_description = None /\ p.meta_desc_length = 0)
              /\ p.meta_desc_length =
                    (IF p.meta_description = None THEN 0 ELSE Len(p.meta_description[1]))
              /\ p.title_length = (IF p.title = None THEN 0 ELSE Len(p.title[1]))

\* C3 as stated: without a <title>, title is absent, title_length is 0 and
\* "Missing title tag" is raised; a <title> of length L < 30 (0 included)
\* raises "Title too short (L chars)", of length L > 60 "Title too long
\* (L chars)", and of length 30..60 no title issue.
C3_TitleIssuesAsStated ==
    report # None =>
        LET p == page_data[1]
            raised == OfKinds(report[1].issues, TitleKinds)
            L == Len(MarkupTitle[1].text)
        IN  IF MarkupTitle = None
            THEN p.title = None /\ p.title_length = 0 /\ raised = << <<"Missing title tag">> >>
            ELSE IF L < 30 THEN raised = << <<"Title too short", L>> >>
            ELSE IF L > 60 THEN raised = << <<"Title too long", L>> >>
            ELSE raised = <<>>

\* C3 amended: as C3, except that a <title> with empty text (L = 0) raises
\* "Missing title tag" and not "Title too short (0 chars)"; "Title too
\* short (L chars)" is raised for L from 1 to 29.
C3_TitleIssues ==
    report # None =>
        LET p == page_data[1]
            raised == OfKinds(report[1].issues, TitleKinds)
            L == Len(MarkupTitle[1].text)
        IN  IF MarkupTitle = None
            THEN p.title = None /\ p.title_length = 0 /\ raised = << <<"Missing title tag">> >>
            ELSE /\ p.title = Some(MarkupTitle[1].text)
                 /\ p.title_length = L
                 /\ IF L = 0 THEN raised = << <<"Missing title tag">> >>
                    ELSE IF L < 30 THEN raised = << <<"Title too short", L>> >>
                    ELSE IF L > 60 THEN raised = << <<"Title too long", L>> >>
                    ELSE raised = <<>>

\* C3 witness: a page whose <title> has 29 characters got "Title too short (29 chars)"
C3_Witness ==
    /\ report # None
    /\ MarkupTitle # None
    /\ Len(MarkupTitle[1].text) = 29
    /\ InSeq(<<"Title too short", 29>>, report[1].issues)

\* C4: with N <img> elements of which K have a non-empty alt attribute,
\* total_images = N, images_without_alt = N - K, has_alt is true for exactly
\* those K images (an empty alt counts as none), images_without_alt plus the
\* number of images with has_alt is total_images, and the alt-text issue is
\* raised, with the value N - K, iff N - K > 0.
C4_ImageCounts ==
    page_data # None =>
        LET p == page_data[1]
            N == Len(MarkupImages)
            K == Cardinality({i \in 1..N : HasAltText(MarkupImages[i])})
        IN  /\ p.total_images = N
            /\ p.images_without_alt = N - K
            /\ Len(p.images) = N
            /\ \A i \in 1..N : p.images[i].has_alt = HasAltText(MarkupImages[i])
            /\ p.images_without_alt
                  + Cardinality({i \in 1..Len(p.images) : p.images[i].has_alt})
                  = p.total_images
            /\ report # None =>
                  OfKinds(report[1].issues, {"images missing alt text"})
                     = (IF N - K > 0 THEN << <<"images missing alt text", N - K>> >> ELSE <<>>)

\* C4 witness: a reported page with three images, one with alt text, one
\* with an empty alt and one without the attribute
C4_Witness ==
    /\ report # None
    /\ Len(MarkupImages) = 3
    /\ Cardinality({i \in 1..3 : HasAltText(MarkupImages[i])}) = 1
    /\ \E i \in 1..3 : MarkupImages[i].attrs.alt = Some(<<>>)
    /\ \E i \in 1..3 : MarkupImages[i].attrs.alt = None
    /\ InSeq(<<"images missing alt text", 2>>, report[1].issues)

\* C5: the score of a Report is max(0, 100 - 10 k) for the k issues of the
\* same Report, whatever the number of recommendations; it is an integer of
\* 0..100 and does not increase with k.
C5_Score ==
    /\ report # None =>
          /\ report[1].score = Max(0, 100 - 10 * Len(report[1].issues))
          /\ report[1].score \in 0..100
    /\ \A k \in 0..MaxIssueCount :
          LET Issues(n) == [i \in 1..n |-> <<"Missing title tag">>]
          IN  /\ Score(Issues(k)) = (IF k >= 10 THEN 0 ELSE 100 - 10 * k)
              /\ Score(Issues(k + 1)) <= Score(Issues(k))

\* C5 witness: a Report with five issues and two recommendations scores 50
C5_Witness ==
    /\ report # None
    /\ Len(report[1].issues) = 5
    /\ Len(report[1].recommendations) = 2
    /\ report[1].score = 50

\* C6: extract_keywords returns (term, count) pairs with distinct terms, at
\* most max_keywords of them, counts non-increasing, equal counts in the
\* order of first occurrence in the text, and no omitted term has a higher
\* count than a returned one.
C6_Ranking ==
    kw_result # None =>
        LET r == kw_result[1]
            words == KeywordWords(kw_text, kw_args.min_length)
            Count(w) == Cardinality({i \in 1..Len(words) : words[i] = w})
            First(w) == CHOOSE i \in 1..Len(words) :
                           words[i] = w /\ \A j \in 1..(i - 1) : words[j] # w
            returned == {r[i][1] : i \in 1..Len(r)}
        IN  /\ Len(r) <= kw_args.max_keywords
            /\ \A i \in 1..Len(r) : InSeq(r[i][1], words) /\ r[i][2] = Count(r[i][1])
            /\ \A i, j \in 1..Len(r) :
                  i < j => /\ r[i][1] # r[j][1]
                           /\ r[i][2] >= r[j][2]
                           /\ (r[i][2] = r[j][2] => First(r[i][1]) < First(r[j][1]))
            /\ \A k \in 1..Len(words) :
                  words[k] \notin returned => \A i \in 1..Len(r) : Count(words[k]) <= r[i][2]

\* C6 witness: a call with max_keywords = 1 that returned the term of count
\* 2 and left out the term of count 1 that comes first in the text
C6_Witness ==
    /\ kw_result # None
    /\ kw_args.max_keywords = 1
    /\ Len(kw_result[1]) = 1
    /\ kw_result[1][1][2] = 2
    /\ LET words == KeywordWords(kw_text, kw_args.min_length)
       IN  Len(words) = 3 /\ words[1] # kw_result[1][1][1]

\* the occurrences of term in text as a maximal run of letters a-z that is
\* not adjacent to a digit or an underscore
RunOccurrences(text, term) ==
    LET n == Len(text)
        m == Len(term)
        Joins(c) == IsAZ(c) \/ c \in DigitSet \/ c = "_"
    IN  Cardinality({i \in 1..(n - m + 1) :
            /\ SubSeq(text, i, i + m - 1) = term
            /\ (i = 1 \/ ~Joins(text[i - 1]))
            /\ (i + m - 1 = n \/ ~Joins(text[i + m]))})

\* C7: every term extract_keywords returns consists only of letters a-z,
\* has at least min_length letters, is no stop word and is a maximal run of
\* letters of the lowercased text not adjacent to a digit or an underscore;
\* its count is the number of such occurrences in the text.
C7_TermsAreWords ==
    kw_result # None =>
        \A i \in 1..Len(kw_result[1]) :
            LET term == kw_result[1][i][1]
            IN  /\ \A k \in 1..Len(term) : IsAZ(term[k])
                /\ Len(term) >= kw_args.min_length
                /\ term \notin stop_words
                /\ RunOccurrences(Lower(kw_text), term) >= 1
                /\ kw_result[1][i][2] = RunOccurrences(Lower(kw_text), term)

\* the run's exchange ended with a 2xx status
FetchedSuccess ==
    LET last == response[Min(Followed(response) + 1, Len(response))]
    IN  /\ argv1.scheme \in {"http", "https"}
        /\ last.kind = "status"
        /\ last.status >= 200
        /\ last.status < 300

\* C8: a run with one URL argument issues exactly one GET; when the fetch
\* fails no report is generated and the artifact is never written; when it
\* returns the markup of a 2xx response (even an empty one) the report is
\* generated and then the artifact, holding the page data and the report, is
\* written; the artifact is never written before the report is generated.
C8_AllOrNothing ==
    /\ gets <= 1
    /\ artifact # None => report # None
    /\ (argc = 2 /\ pc \in {"done", "crashed"}) =>
          /\ gets = 1
          /\ ~FetchedSuccess => (report = None /\ artifact = None)
          /\ FetchedSuccess =>
                /\ pc = "done"
                /\ report # None
                /\ artifact # None
                /\ artifact[1].page_data = page_data[1]
                /\ artifact[1].report = report[1]

\* the words of the <p> elements of a document, counted per element
ProseWords(doc) ==
    LET prose == SelectSeq(doc, LAMBDA node : node.tag = "p")
    IN  Cardinality({w \in UNION {{<<i, k>> : k \in 1..Len(prose[i].text)} :
                                      i \in 1..Len(prose)} :
                        /\ ~IsSpace(prose[w[1]].text[w[2]])
                        /\ (w[2] = 1 \/ IsSpace(prose[w[1]].text[w[2] - 1]))})

\* every element that holds text is followed by a node of whitespace
WhitespaceSeparated(doc) ==
    \A i \in 1..Len(doc) :
        (doc[i].tag # "#text" /\ doc[i].text # <<>>) =>
            /\ i < Len(doc)
            /\ doc[i + 1].tag = "#text"
            /\ doc[i + 1].text # <<>>
            /\ IsSpace(doc[i + 1].text[1])

\* the markup of the end-to-end scenario: the title "Home | IT Support
\* Wichita", no meta description, exactly one <h1>, two images of which one
\* lacks alt text, 250 words of prose in its <p> elements, no JSON-LD, and
\* no other text
IsScenario(doc) ==
    /\ FindFirst(SelectSeq(doc, IsTitle)) # None
    /\ FindFirst(SelectSeq(doc, IsTitle))[1].text = scenario_title
    /\ FindFirst(SelectSeq(doc, IsMetaDescription)) = None
    /\ Len(SelectSeq(doc, IsH1)) = 1
    /\ Len(SelectSeq(doc, IsImg)) = 2
    /\ Cardinality({i \in 1..2 : HasAltText(SelectSeq(doc, IsImg)[i])}) = 1
    /\ ProseWords(doc) = 250
    /\ Len(SelectSeq(doc, IsLdJsonScript)) = 0
    /\ \A i \in 1..Len(doc) :
          \/ doc[i].tag \in {"title", "h1", "img", "p", "script", "style"}
          \/ doc[i].tag = "#text" /\ WordCount(doc[i].text) = 0

\* C9 as stated: the scenario's issues include missing meta description,
\* title too short, one image missing alt text and low word count with the
\* count 250, and the score is 60.
C9_ScenarioAsStated ==
    (report # None /\ IsScenario(Markup)) =>
        /\ InSeq(<<"Missing meta description">>, report[1].issues)
        /\ OfKinds(report[1].issues, {"Title too short"}) # <<>>
        /\ InSeq(<<"images missing alt text", 1>>, report[1].issues)
        /\ InSeq(<<"Low word count", 250>>, report[1].issues)
        /\ report[1].score = 60

\* C9 amended: as C9, except that the count of the low-word-count issue is
\* word_count, the number of whitespace-separated words of the whole document
\* text, in which the words of the title and of the heading stand besides
\* the 250 of the prose: at most 255 plus the words of the <h1>, and exactly
\* that many when whitespace separates the elements (texts of adjacent
\* elements run together otherwise); the title issue carries the 25
\* characters of the title; while the count is below 300 these four are the
\* only issues and the score is 60.
C9_Scenario ==
    (report # None /\ IsScenario(Markup)) =>
        LET n == page_data[1].word_count
            h1 == SelectSeq(Markup, IsH1)[1].text
        IN  /\ n <= 255 + WordCount(h1)
            /\ (WhitespaceSeparated(Markup) => n = 255 + WordCount(h1))
            /\ n < 300 =>
                  /\ report[1].issues = << <<"Title too short", 25>>,
                                           <<"Missing meta description">>,
                                           <<"images missing alt text", 1>>,
                                           <<"Low word count", n>> >>
                  /\ report[1].score = 60

\* C9 witness: a reported scenario page with the prose in several <p>, the
\* elements separated by whitespace and one word in the <h1>: the
\* low-word-count issue is at 256
C9_Witness ==
    /\ report # None
    /\ IsScenario(Markup)
    /\ Len(SelectSeq(Markup, LAMBDA node : node.tag = "p")) > 1
    /\ WhitespaceSeparated(Markup)
    /\ InSeq(<<"Low word count", 256>>, report[1].issues)
    /\ report[1].score = 60

\* the issues of a Report: one per check group at most, in the order title,
\* meta description, H1, alt text, word count
C10_Shape ==
    report # None =>
        LET issues == report[1].issues
            groups == [i \in 1..Len(issues) |-> IssueGroup(issues[i][1])]
        IN  /\ \A i \in 1..Len(issues) : groups[i] \in 1..5
            /\ \A i, j \in 1..Len(issues) : i < j => groups[i] < groups[j]
            /\ Len(issues) <= 5
            /\ report[1].score \in {50, 60, 70, 80, 90, 100}
            /\ Len(report[1].recommendations) <= 2

\* C10: generate_seo_issues raises at most one issue per check group, in the
\* fixed order, so at most 5 issues and a score among 50, 60, ..., 100; at
\* most 2 recommendations; and the PageAnalysis it is given stays unchanged.
C10_IssuesBounded ==
    /\ []C10_Shape
    /\ [][report' # report => page_data' = page_data]_vars
    /\ [](artifact # None => artifact[1].page_data = page_data[1])

\* C10 witness: a Report with an issue of every check group
C10_Witness ==
    /\ report # None
    /\ KindsOf(report[1].issues) = <<"Missing title tag", "Missing meta description",
                                     "Missing H1 tag", "images missing alt text",
                                     "Low word count">>
    /\ report[1].score = 50
=============================================================================
